---- MODULE Spec2Model ----
(***************************************************************************)
(* World Countries API: the request handlers of src/src/lib.rs over the    *)
(* single `countries` table, the mutex guarding the one connection, and    *)
(* the start-up sequence of src/src/main.rs (init_db, seed_countries).     *)
(*                                                                         *)
(* Text values on which the program applies a case conversion (code,       *)
(* region) are sequences of characters; a character is a one-element       *)
(* string, except the two non-ASCII letters "e_acute" / "E_ACUTE" (U+00E9, *)
(* U+00C9).  The other text fields are opaque strings.                     *)
(***************************************************************************)
EXTENDS Integers, Sequences, FiniteSets, TLC

\* ------------------------------------------------------------------ bounds

\* Number of HTTP worker threads that may run handlers concurrently.
NumWorkers == 2

Workers == 1..NumWorkers

\* ------------------------------------------------------- case conversions

AsciiUpperLetters ==
    <<"A","B","C","D","E","F","G","H","I","J","K","L","M",
      "N","O","P","Q","R","S","T","U","V","W","X","Y","Z">>

AsciiLowerLetters ==
    <<"a","b","c","d","e","f","g","h","i","j","k","l","m",
      "n","o","p","q","r","s","t","u","v","w","x","y","z">>

\* Position of character c in the sequence letters, 0 when absent.
IndexOf(letters, c) ==
    IF \E i \in 1..Len(letters) : letters[i] = c
    THEN CHOOSE i \in 1..Len(letters) : letters[i] = c
    ELSE 0

\* char::to_uppercase: Unicode upper-casing of one character.
CharToUppercase(c) ==
    IF IndexOf(AsciiLowerLetters, c) > 0
    THEN AsciiUpperLetters[IndexOf(AsciiLowerLetters, c)]
    ELSE IF c = "e_acute" THEN "E_ACUTE" ELSE c

\* str::to_uppercase as called on the path code by the code handlers.
ToUppercase(s) == [i \in 1..Len(s) |-> CharToUppercase(s[i])]

\* SQLite's built-in LOWER(): folds the 26 ASCII letters, leaves every other
\* character (any non-ASCII letter among them) unchanged.
SqlLowerChar(c) ==
    IF IndexOf(AsciiUpperLetters, c) > 0
    THEN AsciiLowerLetters[IndexOf(AsciiUpperLetters, c)]
    ELSE c

SqlLower(s) == [i \in 1..Len(s) |-> SqlLowerChar(s[i])]

\* ------------------------------------------------------------ the records

Country(name, code, capital, region, currency) ==
    [name |-> name, code |-> code, capital |-> capital,
     region |-> region, currency |-> currency]

NorthAmerica == <<"N","o","r","t","h"," ","A","m","e","r","i","c","a">>
Europe       == <<"E","u","r","o","p","e">>
Asia         == <<"A","s","i","a">>
\* Mutant of Oceania: Australia is filed under Asia, which leaves the seed
\* with five regions.
OceaniaUnderAsia == Asia

Oceania      == <<"O","c","e","a","n","i","a">>
SouthAmerica == <<"S","o","u","t","h"," ","A","m","e","r","i","c","a">>
Africa       == <<"A","f","r","i","c","a">>

\* The vec! of seed_countries, in its order.
SeedCountries ==
    << Country("United States",  <<"U","S">>, "Washington, D.C.", NorthAmerica, "USD"),
       Country("Canada",         <<"C","A">>, "Ottawa",           NorthAmerica, "CAD"),
       Country("United Kingdom", <<"G","B">>, "London",           Europe,       "GBP"),
       Country("Germany",        <<"D","E">>, "Berlin",           Europe,       "EUR"),
       Country("France",         <<"F","R">>, "Paris",            Europe,       "EUR"),
       Country("Japan",          <<"J","P">>, "Tokyo",            Asia,         "JPY"),
       Country("Australia",      <<"A","U">>, "Canberra",         Oceania,      "AUD"),
       Country("Brazil",         <<"B","R">>, "Brasília",         SouthAmerica, "BRL"),
       Country("South Africa",   <<"Z","A">>, "Pretoria",         Africa,       "ZAR"),
       Country("India",          <<"I","N">>, "New Delhi",        Asia,         "INR") >>

\* --------------------------------------------------- the SQL statements

\* ... WHERE code = ?1 : exact (BINARY collation) comparison of the key.
SelectByCode(rows, code) ==
    LET Test(r) == r.code = code IN SelectSeq(rows, Test)

\* SELECT COUNT(*) FROM countries
CountRows(rows) == Len(rows)

\* INSERT INTO countries ... on a table whose code column is the PRIMARY
\* KEY: a row with the same code makes the statement fail and leaves the
\* table as it was; otherwise the row is appended.
InsertRow(rows, r) ==
    IF Len(SelectByCode(rows, r.code)) > 0
    THEN [ok |-> FALSE, rows |-> rows]
    ELSE [ok |-> TRUE,  rows |-> Append(rows, r)]

\* Mutant of UpdateRows: an upsert, which adds the row when none matches.
UpsertRows(rows, code, b) ==
    IF Len(SelectByCode(rows, code)) > 0
    THEN [n    |-> Len(SelectByCode(rows, code)),
          rows |-> [i \in 1..Len(rows) |->
                      IF rows[i].code = code
                      THEN Country(b.name, rows[i].code, b.capital, b.region, b.currency)
                      ELSE rows[i]]]
    ELSE [n    |-> 0,
          rows |-> Append(rows, Country(b.name, code, b.capital, b.region, b.currency))]

\* Mutant of UpdateRows: the body's code is written too, with no key check.
UpdateRowsAllFields(rows, code, b) ==
    [n    |-> Len(SelectByCode(rows, code)),
     rows |-> [i \in 1..Len(rows) |-> IF rows[i].code = code THEN b ELSE rows[i]]]

\* UPDATE countries SET name, capital, region, currency WHERE code = ?5 :
\* the number of rows changed and the table afterwards.
UpdateRows(rows, code, b) ==
    [n    |-> Len(SelectByCode(rows, code)),
     rows |-> [i \in 1..Len(rows) |->
                 IF rows[i].code = code
                 THEN Country(b.name, rows[i].code, b.capital, b.region, b.currency)
                 ELSE rows[i]]]

\* DELETE FROM countries WHERE code = ?1
DeleteRows(rows, code) ==
    LET Keep(r) == r.code # code IN
    [n    |-> Len(SelectByCode(rows, code)),
     rows |-> SelectSeq(rows, Keep)]

\* ... WHERE LOWER(region) = LOWER(?1)
SelectByRegion(rows, region) ==
    LET Test(r) == SqlLower(r.region) = SqlLower(region) IN SelectSeq(rows, Test)

\* Mutant of DistinctRegions: SELECT region FROM countries, without DISTINCT.
AllRegions(rows) == [i \in 1..Len(rows) |-> rows[i].region]

\* SELECT DISTINCT region FROM countries : each region value once, in the
\* order of its first row.
RECURSIVE DistinctRegions(_)
DistinctRegions(rows) ==
    IF rows = <<>> THEN <<>>
    ELSE LET front == DistinctRegions(SubSeq(rows, 1, Len(rows) - 1))
             last  == rows[Len(rows)].region
         IN IF \E i \in 1..Len(front) : front[i] = last
            THEN front
            ELSE Append(front, last)

\* ------------------------------------------------------- HTTP responses

NoText == [msg |-> "", arg |-> <<>>]

\* HttpResponse::<Status>().json(country)
JsonRecord(status, r) ==
    [status |-> status, kind |-> "record", items |-> <<r>>, text |-> NoText]

\* HttpResponse::<Status>().json(vec)
JsonArray(status, items) ==
    [status |-> status, kind |-> "array", items |-> items, text |-> NoText]

\* HttpResponse::<Status>().body(format!(msg, arg))
TextBody(status, msg, arg) ==
    [status |-> status, kind |-> "text", items |-> <<>>,
     text |-> [msg |-> msg, arg |-> arg]]

\* HttpResponse::NoContent().finish()
EmptyBody(status) ==
    [status |-> status, kind |-> "empty", items |-> <<>>, text |-> NoText]

\* format!("Database error: {}", e)
DatabaseError(e) == TextBody(500, "Database error: {}", <<e>>)

\* ------------------------------------------- the handlers, as functions
\* Each handler's response (and, for a writing handler, the table it
\* leaves) as a function of the table it runs on and of its inputs.

\* all_countries: SELECT code, name, capital, region, currency FROM countries
AllCountriesResponse(rows) == JsonArray(200, rows)

\* Mutant of CountryByCodeResponse: the path code is matched as received.
CountryByCodeExact(rows, path) ==
    LET found == SelectByCode(rows, path)
    IN IF Len(found) = 0
       THEN TextBody(404, "Country with code {} not found", path)
       ELSE JsonRecord(200, found[1])

\* country_by_code: the path code is upper-cased, then matched exactly.
CountryByCodeResponse(rows, path) ==
    LET code  == ToUppercase(path)
        found == SelectByCode(rows, code)
    IN IF Len(found) = 0
       THEN TextBody(404, "Country with code {} not found", code)
       ELSE JsonRecord(200, found[1])

\* get_regions
GetRegionsResponse(rows) == JsonArray(200, DistinctRegions(rows))

\* countries_by_region: the path is passed as it is; an empty result is 404.
CountriesByRegionResponse(rows, region) ==
    LET found == SelectByRegion(rows, region)
    IN IF found = <<>>
       THEN TextBody(404, "No countries found in region {}", region)
       ELSE JsonArray(200, found)

\* Mutant of AddCountryExists: no check, the INSERT is left to fail.
SkipExistenceCheck(rows, body) == FALSE

\* add_country, first statement: SELECT 1 FROM countries WHERE code = ?1
\* with the body's code as submitted.
AddCountryExists(rows, body) == Len(SelectByCode(rows, body.code)) > 0

\* add_country, the response to an existing code.
AddCountryConflict(body) ==
    TextBody(400, "Country with code {} already exists", body.code)

\* add_country, second statement and the match on its result.
AddCountryInsert(rows, body) ==
    LET result == InsertRow(rows, body)
    IN IF result.ok
       THEN [out |-> JsonRecord(201, body), rows |-> result.rows]
       ELSE [out |-> DatabaseError("UNIQUE constraint failed: countries.code"),
             rows |-> result.rows]

\* Mutant of UpdateCountry: the response echoes the body, code included.
UpdateCountryEchoBody(rows, path, body) ==
    LET code   == ToUppercase(path)
        result == UpdateRows(rows, code, body)
    IN IF result.n > 0
       THEN [out |-> JsonRecord(200, body), rows |-> result.rows]
       ELSE [out  |-> TextBody(404, "Country with code {} not found", code),
             rows |-> result.rows]

\* update_country: a blind UPDATE keyed by the upper-cased path code; the
\* response carries that code, not the body's.
UpdateCountry(rows, path, body) ==
    LET code   == ToUppercase(path)
        result == UpdateRows(rows, code, body)
    IN IF result.n > 0
       THEN [out  |-> JsonRecord(200, Country(body.name, code, body.capital,
                                              body.region, body.currency)),
             rows |-> result.rows]
       ELSE [out  |-> TextBody(404, "Country with code {} not found", code),
             rows |-> result.rows]

\* Mutant of DeleteCountry: the path code is not upper-cased.
DeleteCountryAsReceived(rows, path) ==
    LET result == DeleteRows(rows, path)
    IN IF result.n > 0
       THEN [out |-> EmptyBody(204), rows |-> result.rows]
       ELSE [out  |-> TextBody(404, "Country with code {} not found", path),
             rows |-> result.rows]

\* delete_country
DeleteCountry(rows, path) ==
    LET code   == ToUppercase(path)
        result == DeleteRows(rows, code)
    IN IF result.n > 0
       THEN [out |-> EmptyBody(204), rows |-> result.rows]
       ELSE [out  |-> TextBody(404, "Country with code {} not found", code),
             rows |-> result.rows]

\* Mutant of Rollback: the inserts made so far stay.
KeepInserted(rows, backup) == rows

\* seed_countries: what dropping the open transaction on an error leaves.
Rollback(rows, backup) == backup

\* ------------------------------------------------------------ the inputs

NoBody == Country("", <<>>, "", <<>>, "")

\* Path codes of GET/PUT/DELETE /countries/{code}.
PathCodes == { <<"f","r">>, <<"Z","Z">>, <<"z","Z">> }

\* Region paths of GET /countries/region/{region}.
PathRegions ==
    { <<"e","u","r","o","p","e">>, <<"E","U","R","O","P","E">>,
      <<"e_acute","i","r","e">> }

\* Request bodies of POST and PUT.
Bodies ==
    { Country("Zedland", <<"Z","Z">>, "Zed City", Europe, "ZED"),
      Country("Lower Zedland", <<"z","z">>, "Zed Town",
              <<"e","u","r","o","p","e">>, "ZEL"),
      Country("Francia", <<"F","R">>, "Lutetia",
              <<"E_ACUTE","i","r","e">>, "FRF") }

\* Errors the storage engine may report for a call.
StorageErrors == { "disk I/O error", "database is locked" }

NoFault == "none"

Request(op, path, body) == [op |-> op, path |-> path, body |-> body]

NoRequest == Request("none", <<>>, NoBody)

\* ------------------------------------------------------------- the state

VARIABLES
    countries,      \* the rows of table `countries` in countries.db, in rowid order
    main_pc,        \* where main is: "start", "seed", "begin", "insert", "seeded",
                    \* "serving", "exited"
    seeded,         \* seed records inserted so far by the open transaction
    tx_backup,      \* the table as it was when the open transaction began
    db_lock,        \* AppState.db: the worker holding the mutex, 0 when free
    poisoned,       \* AppState.db: whether a holder panicked with the guard
    fault,          \* the error the next storage call will report, NoFault if none
    pc,             \* per worker: "idle", "lock", "exec", "insert", "aborted", "panicked"
    req,            \* per worker: the request being handled
    response,       \* the response returned by the step just taken, if any
    deleted_codes   \* codes a DELETE has answered for, with no insert of them since

vars == <<countries, main_pc, seeded, tx_backup, db_lock, poisoned, fault, pc,
          req, response, deleted_codes>>

NoResponse == [worker |-> 0, req |-> NoRequest, out |-> EmptyBody(0)]

\* A new countries.db, main about to run.
Init ==
    /\ countries = <<>>
    /\ main_pc = "start"
    /\ seeded = 0
    /\ tx_backup = <<>>
    /\ db_lock = 0
    /\ poisoned = FALSE
    /\ fault = NoFault
    /\ pc = [t \in Workers |-> "idle"]
    /\ req = [t \in Workers |-> NoRequest]
    /\ response = NoResponse
    /\ deleted_codes = {}

\* ------------------------------------------------------- main and seeding

\* init_db: CREATE TABLE IF NOT EXISTS keeps the rows of an existing table;
\* an error ends main.
init_db ==
    /\ main_pc = "start"
    /\ main_pc' = IF fault = NoFault THEN "seed" ELSE "exited"
    /\ fault' = NoFault
    /\ UNCHANGED <<countries, seeded, tx_backup, db_lock, poisoned, pc, req,
                   response, deleted_codes>>

\* Mutant of TableIsEmpty: the seed is inserted whatever the count.
AlwaysSeed(rows) == TRUE

\* seed_countries: `if count == 0`.
TableIsEmpty(rows) == CountRows(rows) = 0

\* seed_countries: the COUNT(*) query and the test on it; a table that
\* holds rows makes seed_countries return Ok(()) at once.
seed_countries_count ==
    /\ main_pc = "seed"
    /\ main_pc' = IF fault # NoFault THEN "exited"
                  ELSE IF TableIsEmpty(countries) THEN "begin" ELSE "seeded"
    /\ fault' = NoFault
    /\ UNCHANGED <<countries, seeded, tx_backup, db_lock, poisoned, pc, req,
                   response, deleted_codes>>

\* seed_countries: conn.transaction()
seed_countries_begin ==
    /\ main_pc = "begin"
    /\ IF fault # NoFault
       THEN /\ main_pc' = "exited"
            /\ UNCHANGED <<tx_backup, seeded>>
       ELSE /\ tx_backup' = countries
            /\ seeded' = 0
            /\ main_pc' = "insert"
    /\ fault' = NoFault
    /\ UNCHANGED <<countries, db_lock, poisoned, pc, req, response, deleted_codes>>

\* seed_countries: one tx.execute(INSERT ...) of the loop; a failed insert
\* returns through `?`, which drops the transaction, and main exits.
seed_countries_insert ==
    /\ main_pc = "insert"
    /\ seeded < Len(SeedCountries)
    /\ LET result == InsertRow(countries, SeedCountries[seeded + 1])
       IN IF fault = NoFault /\ result.ok
          THEN /\ countries' = result.rows
               /\ seeded' = seeded + 1
               /\ UNCHANGED <<main_pc, tx_backup>>
          ELSE /\ countries' = Rollback(countries, tx_backup)
               /\ main_pc' = "exited"
               /\ tx_backup' = <<>>
               /\ UNCHANGED seeded
    /\ fault' = NoFault
    /\ UNCHANGED <<db_lock, poisoned, pc, req, response, deleted_codes>>

\* seed_countries: tx.commit() and Ok(()); a failed commit drops the
\* transaction as a failed insert does.
seed_countries_commit ==
    /\ main_pc = "insert"
    /\ seeded = Len(SeedCountries)
    /\ IF fault = NoFault
       THEN /\ main_pc' = "seeded"
            /\ UNCHANGED countries
       ELSE /\ main_pc' = "exited"
            /\ countries' = Rollback(countries, tx_backup)
    /\ tx_backup' = <<>>
    /\ fault' = NoFault
    /\ UNCHANGED <<seeded, db_lock, poisoned, pc, req, response, deleted_codes>>

\* main after seed_countries returned Ok: AppState is built around the
\* connection and the server starts its workers.
serve ==
    /\ main_pc = "seeded"
    /\ main_pc' = "serving"
    /\ UNCHANGED <<countries, seeded, tx_backup, db_lock, poisoned, fault, pc,
                   req, response, deleted_codes>>

\* The process ends and main runs again on the countries.db it left.
restart ==
    /\ main_pc \in {"serving", "exited"}
    /\ main_pc' = "start"
    /\ seeded' = 0
    /\ db_lock' = 0
    /\ poisoned' = FALSE
    /\ fault' = NoFault
    /\ pc' = [t \in Workers |-> "idle"]
    /\ req' = [t \in Workers |-> NoRequest]
    /\ response' = NoResponse
    /\ deleted_codes' = {}
    /\ UNCHANGED <<countries, tx_backup>>

\* ----------------------------------------------------------- the workers
\* A worker runs one handler at a time.  A handler reads its request only
\* to build the statement it runs under the guard.  The content of a request
\* to a one-statement handler is drawn at that step; the body of a POST is
\* kept in req from the moment the request is routed, so that the requests
\* waiting for the guard are told apart by the code they carry.

\* A request is routed to a handler, which is about to call data.db.lock().
receive(t) ==
    /\ main_pc = "serving"
    /\ pc[t] = "idle"
    /\ pc' = [pc EXCEPT ![t] = "lock"]
    /\ response' = NoResponse
    /\ UNCHANGED <<countries, main_pc, seeded, tx_backup, db_lock, poisoned,
                   fault, req, deleted_codes>>

\* POST /countries with `body` is routed to add_country, which is about to
\* call data.db.lock().
receive_add_country(t, body) ==
    /\ main_pc = "serving"
    /\ pc[t] = "idle"
    /\ pc' = [pc EXCEPT ![t] = "lock"]
    /\ req' = [req EXCEPT ![t] = Request("add_country", <<>>, body)]
    /\ response' = NoResponse
    /\ UNCHANGED <<countries, main_pc, seeded, tx_backup, db_lock, poisoned,
                   fault, deleted_codes>>

\* Mutant of MutexFree: lock() returns while another thread holds the guard.
MutexNeverHeld(holder) == TRUE

\* std::sync::Mutex: lock() returns once no thread holds the mutex.
MutexFree(holder) == holder = 0

\* data.db.lock().unwrap(): the guard, or a panic when lock() reports that
\* the mutex is poisoned.
lock(t) ==
    /\ pc[t] = "lock"
    /\ MutexFree(db_lock)
    /\ IF poisoned
       THEN /\ pc' = [pc EXCEPT ![t] = "panicked"]
            /\ req' = [req EXCEPT ![t] = NoRequest]
            /\ UNCHANGED db_lock
       ELSE /\ pc' = [pc EXCEPT ![t] = "exec"]
            /\ db_lock' = t
            /\ UNCHANGED req
    /\ response' = NoResponse
    /\ UNCHANGED <<countries, main_pc, seeded, tx_backup, poisoned, fault,
                   deleted_codes>>

\* The handler returns `out` for request r: the guard is dropped with it.
Return(t, r, out) ==
    /\ response' = [worker |-> t, req |-> r, out |-> out]
    /\ pc' = [pc EXCEPT ![t] = "idle"]
    /\ req' = [req EXCEPT ![t] = NoRequest]
    /\ db_lock' = IF db_lock = t THEN 0 ELSE db_lock

\* The handler's last storage call and the match on its result: the Err(e)
\* arm answers 500 with the error's text, the other arms are `result`.
Respond(t, r, result) ==
    /\ IF fault # NoFault
       THEN /\ countries' = countries
            /\ Return(t, r, DatabaseError(fault))
       ELSE /\ countries' = result.rows
            /\ Return(t, r, result.out)
    /\ fault' = NoFault

all_countries(t) ==
    /\ pc[t] = "exec"
    /\ req[t] = NoRequest
    /\ Respond(t, Request("all_countries", <<>>, NoBody),
               [out |-> AllCountriesResponse(countries), rows |-> countries])
    /\ UNCHANGED <<main_pc, seeded, tx_backup, poisoned, deleted_codes>>

country_by_code(t, path) ==
    /\ pc[t] = "exec"
    /\ req[t] = NoRequest
    /\ Respond(t, Request("country_by_code", path, NoBody),
               [out |-> CountryByCodeResponse(countries, path), rows |-> countries])
    /\ UNCHANGED <<main_pc, seeded, tx_backup, poisoned, deleted_codes>>

get_regions(t) ==
    /\ pc[t] = "exec"
    /\ req[t] = NoRequest
    /\ Respond(t, Request("get_regions", <<>>, NoBody),
               [out |-> GetRegionsResponse(countries), rows |-> countries])
    /\ UNCHANGED <<main_pc, seeded, tx_backup, poisoned, deleted_codes>>

countries_by_region(t, region) ==
    /\ pc[t] = "exec"
    /\ req[t] = NoRequest
    /\ Respond(t, Request("countries_by_region", region, NoBody),
               [out  |-> CountriesByRegionResponse(countries, region),
                rows |-> countries])
    /\ UNCHANGED <<main_pc, seeded, tx_backup, poisoned, deleted_codes>>

\* Mutant of add_country_exists: the guard is dropped after the existence
\* check and the INSERT runs without it.
AddCountryExistsDropsGuard(t) ==
    /\ pc[t] = "exec"
    /\ req[t].op = "add_country"
    /\ IF fault = NoFault /\ ~AddCountryExists(countries, req[t].body)
       THEN /\ pc' = [pc EXCEPT ![t] = "insert"]
            /\ db_lock' = 0
            /\ response' = NoResponse
            /\ UNCHANGED <<countries, fault, req>>
       ELSE Respond(t, req[t],
                    [out |-> AddCountryConflict(req[t].body), rows |-> countries])
    /\ UNCHANGED <<main_pc, seeded, tx_backup, poisoned, deleted_codes>>

\* add_country up to the match on `exists`: 400 for an existing code, 500
\* for an error, otherwise on to the INSERT with the guard still held.
add_country_exists(t) ==
    /\ pc[t] = "exec"
    /\ req[t].op = "add_country"
    /\ IF fault = NoFault /\ ~AddCountryExists(countries, req[t].body)
       THEN /\ pc' = [pc EXCEPT ![t] = "insert"]
            /\ response' = NoResponse
            /\ UNCHANGED <<countries, db_lock, fault, req>>
       ELSE Respond(t, req[t],
                    [out |-> AddCountryConflict(req[t].body), rows |-> countries])
    /\ UNCHANGED <<main_pc, seeded, tx_backup, poisoned, deleted_codes>>

\* add_country from the INSERT to the response.
add_country_insert(t) ==
    /\ pc[t] = "insert"
    /\ Respond(t, req[t], AddCountryInsert(countries, req[t].body))
    /\ deleted_codes' = IF countries' # countries
                        THEN deleted_codes \ {req[t].body.code}
                        ELSE deleted_codes
    /\ UNCHANGED <<main_pc, seeded, tx_backup, poisoned>>

update_country(t, path, body) ==
    /\ pc[t] = "exec"
    /\ req[t] = NoRequest
    /\ Respond(t, Request("update_country", path, body),
               UpdateCountry(countries, path, body))
    /\ UNCHANGED <<main_pc, seeded, tx_backup, poisoned, deleted_codes>>

delete_country(t, path) ==
    /\ pc[t] = "exec"
    /\ req[t] = NoRequest
    /\ Respond(t, Request("delete_country", path, NoBody),
               DeleteCountry(countries, path))
    /\ deleted_codes' = IF fault = NoFault
                        THEN deleted_codes \cup {ToUppercase(path)}
                        ELSE deleted_codes
    /\ UNCHANGED <<main_pc, seeded, tx_backup, poisoned>>

Next ==
    \/ init_db
    \/ seed_countries_count
    \/ seed_countries_begin
    \/ seed_countries_insert
    \/ seed_countries_commit
    \/ serve
    \/ restart
    \/ \E t \in Workers : receive(t)
    \/ \E t \in Workers : \E body \in Bodies : receive_add_country(t, body)
    \/ \E t \in Workers : lock(t)
    \/ \E t \in Workers : all_countries(t)
    \/ \E t \in Workers : \E path \in PathCodes : country_by_code(t, path)
    \/ \E t \in Workers : get_regions(t)
    \/ \E t \in Workers : \E region \in PathRegions : countries_by_region(t, region)
    \/ \E t \in Workers : add_country_exists(t)
    \/ \E t \in Workers : add_country_insert(t)
    \/ \E t \in Workers : \E path \in PathCodes : \E body \in Bodies :
          update_country(t, path, body)
    \/ \E t \in Workers : \E path \in PathCodes : delete_country(t, path)

\* The requests served with a storage engine that reports no error.
Spec == Init /\ [][Next]_vars

\* ------------------------------------------------------------ the faults

\* The storage engine will report error e for the next call made on the
\* connection (by main while it seeds, by the guard's holder afterwards).
storage_error(e) ==
    /\ fault = NoFault
    /\ \/ main_pc \in {"start", "seed", "begin", "insert"}
       \/ db_lock # 0
    /\ fault' = e
    /\ response' = NoResponse
    /\ UNCHANGED <<countries, main_pc, seeded, tx_backup, db_lock, poisoned, pc,
                   req, deleted_codes>>

\* The thread of worker t unwinds while it holds the guard (a panic raised
\* below the handler): the guard's drop poisons the mutex and frees it.
holder_panics(t) ==
    /\ pc[t] \in {"exec", "insert"}
    /\ db_lock = t
    /\ pc' = [pc EXCEPT ![t] = "aborted"]
    /\ req' = [req EXCEPT ![t] = NoRequest]
    /\ db_lock' = 0
    /\ poisoned' = TRUE
    /\ response' = NoResponse
    /\ UNCHANGED <<countries, main_pc, seeded, tx_backup, fault, deleted_codes>>

FaultNext ==
    \/ Next
    \/ \E e \in StorageErrors : storage_error(e)
    \/ \E t \in Workers : holder_panics(t)

\* The same program with storage errors and panics under the guard.
FaultSpec == Init /\ [][FaultNext]_vars

\* ------------------------------------------------------------ the claims

\* Whether characters a and b are the same letter in either case.
SameLetter(a, b) ==
    \/ a = b
    \/ \E i \in 1..Len(AsciiUpperLetters) :
          {a, b} = {AsciiUpperLetters[i], AsciiLowerLetters[i]}
    \/ {a, b} = {"e_acute", "E_ACUTE"}

\* Whether texts s and u are equal when letter case is ignored.
EqualIgnoringCase(s, u) ==
    /\ Len(s) = Len(u)
    /\ \A i \in 1..Len(s) : SameLetter(s[i], u[i])

\* Whether text s holds no lower-case letter.
IsUpperCase(s) ==
    \A i \in 1..Len(s) :
        /\ s[i] # "e_acute"
        /\ \A k \in 1..Len(AsciiLowerLetters) : s[i] # AsciiLowerLetters[k]

\* The rows of `rows` whose code is `code`, as positions.
RowsWithCode(rows, code) == {i \in 1..Len(rows) : rows[i].code = code}

\* Whether the step taken returned a response of handler op.
Answered(op) == response'.worker # 0 /\ response'.req.op = op

\* C1, as claimed: for every record of the store, GET /countries/{c} with
\* c that record's code in any letter case answers 200 with that record.
C1_AnyStoredCodeIsFound ==
    [][Answered("country_by_code") =>
         \A i \in 1..Len(countries) :
            EqualIgnoringCase(countries[i].code, response'.req.path)
               => response'.out = JsonRecord(200, countries[i])]_vars

\* C1, amended: for every record of the store whose stored code is in upper
\* case, GET /countries/{c} with c that code in any letter case answers 200
\* with exactly that record.
C1_UpperCaseCodeIsFound ==
    [][Answered("country_by_code") =>
         \A i \in 1..Len(countries) :
            (/\ IsUpperCase(countries[i].code)
             /\ EqualIgnoringCase(countries[i].code, response'.req.path))
               => response'.out = JsonRecord(200, countries[i])]_vars

\* C1, witness: a record created by POST is returned for a path that
\* writes its code in another letter case.
C1_Witness ==
    /\ response.req.op = "country_by_code"
    /\ response.req.path = <<"z","Z">>
    /\ response.out.status = 200
    /\ response.out.items[1].code = <<"Z","Z">>
    /\ response.out.items[1].name = "Zedland"

\* C2: POST /countries with a body whose code is the code of a stored
\* record answers 400 and leaves the table as it was.
C2_DuplicateCodeRejected ==
    [][(Answered("add_country")
          /\ RowsWithCode(countries, response'.req.body.code) # {})
         => (response'.out.status = 400 /\ countries' = countries)]_vars

\* C2, witness: a 400 for a body that differs from the stored record of its
\* code, which is still stored.
C2_Witness ==
    /\ response.req.op = "add_country"
    /\ response.out.status = 400
    /\ \E i \in 1..Len(countries) :
          /\ countries[i].code = response.req.body.code
          /\ countries[i] # response.req.body

\* C3: PUT /countries/{code} with no stored code equal to the upper-cased
\* path code answers 404 and leaves the table as it was.
C3_UpdateNeverCreates ==
    [][(Answered("update_country")
          /\ RowsWithCode(countries, ToUppercase(response'.req.path)) = {})
         => (response'.out.status = 404 /\ countries' = countries)]_vars

\* C3, witness: a 404 for a path code that a stored code matches only when
\* letter case is ignored.
C3_Witness ==
    /\ response.req.op = "update_country"
    /\ response.out.status = 404
    /\ \E i \in 1..Len(countries) :
          EqualIgnoringCase(countries[i].code, response.req.path)

\* C4: no two rows of the table share a code.
C4_CodesUnique ==
    \A i, j \in 1..Len(countries) :
        countries[i].code = countries[j].code => i = j

\* C4, witness: the table holds two created rows whose codes differ only
\* in case, and the row of FR was deleted, created again (it lies behind
\* the seed rows) and then updated (its name is another body's).
C4_Witness ==
    /\ RowsWithCode(countries, <<"Z","Z">>) # {}
    /\ RowsWithCode(countries, <<"z","z">>) # {}
    /\ \E i \in 1..Len(countries) :
          /\ i >= Len(SeedCountries)
          /\ countries[i].code = <<"F","R">>
          /\ countries[i].name = "Zedland"

\* C5: a worker inside a handler's statements holds the mutex, and no other
\* worker is inside its statements at the same time.
C5_MutualExclusion ==
    \A t \in Workers :
        pc[t] \in {"exec", "insert"} =>
            /\ db_lock = t
            /\ \A u \in Workers \ {t} : pc[u] \notin {"exec", "insert"}

\* C5, witness: a worker between the two statements of add_country while
\* another worker waits for the mutex.
C5_Witness ==
    \E t, u \in Workers : pc[t] = "insert" /\ pc[u] = "lock" /\ db_lock = t

\* Whether worker t, at its next step, meets a failure: lock() reporting a
\* poisoned mutex, or the storage call it is about to make failing.
FailureMet(t) ==
    \/ pc[t] = "lock" /\ db_lock = 0 /\ poisoned
    \/ pc[t] \in {"exec", "insert"} /\ fault # NoFault

\* C6, as claimed: a handler that meets a failure (acquiring the lock,
\* running a statement) answers 500 with the error's text and does not
\* panic.
C6_EveryFailureIs500 ==
    [][\A t \in Workers :
         (FailureMet(t) /\ pc'[t] # pc[t] /\ pc'[t] # "aborted"
            /\ main_pc' = main_pc)
         => (/\ pc'[t] = "idle"
             /\ response'.worker = t
             /\ response'.out.status = 500
             /\ response'.out.kind = "text")]_vars

\* The seed records that `rows` holds, as positions of SeedCountries.
SeedsIn(rows) ==
    {i \in 1..Len(SeedCountries) :
        \E j \in 1..Len(rows) : rows[j] = SeedCountries[i]}

\* C7: when the seeding transaction ends, the table holds all ten seed
\* records or none of them, and none when seed_countries failed.
C7_SeedAllOrNothing ==
    [][(main_pc = "insert" /\ main_pc' # "insert")
         => (/\ SeedsIn(countries') \in {{}, 1..Len(SeedCountries)}
             /\ main_pc' = "exited" => SeedsIn(countries') = {})]_vars

\* C7, witness: seed_countries failed after some of its inserts and the
\* table holds no row.
C7_Witness ==
    /\ main_pc = "exited"
    /\ seeded > 0
    /\ seeded < Len(SeedCountries)
    /\ countries = <<>>

\* C8: seed_countries called on an empty table leaves exactly the ten seed
\* records; called on a table that holds rows it returns Ok and leaves the
\* table as it was; the table it leaves never holds a code twice.
C8_SeedIdempotent ==
    [][/\ (main_pc = "seed" /\ countries = <<>>) => main_pc' = "begin"
       /\ (main_pc = "insert" /\ main_pc' # "insert")
             => (main_pc' = "seeded" /\ countries' = SeedCountries)
       /\ (main_pc = "seed" /\ countries # <<>>)
             => (main_pc' = "seeded" /\ countries' = countries)
       /\ main_pc' = "seeded"
             => \A i, j \in 1..Len(countries') :
                   countries'[i].code = countries'[j].code => i = j]_vars

\* C8, witness: seed_countries has returned Ok without an insert of its
\* own, on a table that held rows.
C8_Witness ==
    /\ main_pc = "seeded"
    /\ seeded = 0
    /\ Len(countries) >= Len(SeedCountries)

\* C9, as claimed: GET /countries/region/{r} answers 200 with exactly the
\* records whose region equals r when letter case is ignored, and 404 when
\* there is none.
C9_RegionIgnoringCase ==
    [][Answered("countries_by_region") =>
         LET Match(r) == EqualIgnoringCase(r.region, response'.req.path)
             expected == SelectSeq(countries, Match)
         IN IF expected # <<>>
            THEN response'.out = JsonArray(200, expected)
            ELSE response'.out.status = 404]_vars

\* C10: once DELETE /countries/{code} has answered, GET /countries/{code}
\* answers 404 for as long as no POST has created a row of that code.
C10_DeletedIsNotFound ==
    [][(Answered("country_by_code")
          /\ ToUppercase(response'.req.path) \in deleted_codes)
         => response'.out.status = 404]_vars

\* C10, witness: a 404 for the lower-case path of a seed record that a
\* DELETE removed.
C10_Witness ==
    /\ response.req.op = "country_by_code"
    /\ response.req.path = <<"f","r">>
    /\ response.out.status = 404
    /\ <<"F","R">> \in deleted_codes

\* The region values held by at least one row of `rows`.
RegionsHeld(rows) == {rows[i].region : i \in 1..Len(rows)}

\* The values listed by a JSON array, and whether none is listed twice.
Listed(items) == {items[i] : i \in 1..Len(items)}

NoneTwice(items) ==
    \A i, j \in 1..Len(items) : items[i] = items[j] => i = j

\* C11: in every store state GET /regions answers 200 with a list in which
\* every region value held by at least one record appears exactly once and
\* no other value appears, however many records share a region.
C11_RegionsListedOnce ==
    [][Answered("get_regions") =>
         /\ response'.out.status = 200
         /\ response'.out.kind = "array"
         /\ Listed(response'.out.items) = RegionsHeld(countries)
         /\ NoneTwice(response'.out.items)]_vars

\* GET /regions has answered on a store where several records share a
\* region and where two region values differ in letter case only.
C11_Witness ==
    /\ response.worker # 0
    /\ response.req.op = "get_regions"
    /\ response.out.status = 200
    /\ Len(response.out.items) < Len(countries)
    /\ \E i, j \in 1..Len(countries) :
          i # j /\ countries[i].region = countries[j].region
    /\ Europe \in Listed(response.out.items)
    /\ <<"e","u","r","o","p","e">> \in Listed(response.out.items)

C13_UpdateReplacesFields ==
    [][(Answered("update_country")
          /\ RowsWithCode(countries, ToUppercase(response'.req.path)) # {})
        => LET code == ToUppercase(response'.req.path)
               body == response'.req.body
           IN /\ response'.out.status = 200
              /\ response'.out.kind = "record"
              /\ response'.out.items[1].code = code
              /\ response'.out.items[1].name = body.name
              /\ response'.out.items[1].capital = body.capital
              /\ response'.out.items[1].region = body.region
              /\ response'.out.items[1].currency = body.currency
              /\ Len(countries') = Len(countries)
              /\ \A i \in 1..Len(countries) :
                    /\ countries'[i].code = countries[i].code
                    /\ IF countries[i].code = code
                       THEN /\ countries'[i].name = body.name
                            /\ countries'[i].capital = body.capital
                            /\ countries'[i].region = body.region
                            /\ countries'[i].currency = body.currency
                       ELSE countries'[i] = countries[i]]_vars

\* PUT /countries/fr with a body whose code is another one has answered 200
\* with code FR, and the row FR holds the body's name beside other rows.
C13_Witness ==
    /\ response.worker # 0
    /\ response.req.op = "update_country"
    /\ response.req.path = <<"f","r">>
    /\ response.req.body.code = <<"Z","Z">>
    /\ response.out.status = 200
    /\ response.out.items[1].code = <<"F","R">>
    /\ \E i \in 1..Len(countries) :
          /\ countries[i].code = <<"F","R">>
          /\ countries[i].name = response.req.body.name
          /\ countries[i].region = response.req.body.region
    /\ RowsWithCode(countries, <<"Z","Z">>) = {}
    /\ \E i \in 1..Len(countries) : countries[i] = SeedCountries[1]

\* Whether worker t is inside add_country (waiting for the guard or holding
\* it) with a body whose code is `code`.
InAddCountry(t, code) ==
    /\ pc[t] \in {"lock", "exec", "insert"}
    /\ req[t].op = "add_country"
    /\ req[t].body.code = code

\* C14: of the POST /countries requests that carry the same code and run
\* concurrently, the one answered while the store does not hold the code
\* returns 201 and inserts the row, after which the store holds the code
\* once; a request answered while the store holds the code returns 400 and
\* changes nothing; none is answered 500 for a primary-key violation, and
\* the others are still waiting for the guard when one is answered.
C14_ConcurrentAddCountry ==
    [][Answered("add_country") =>
         LET body == response'.req.body
         IN /\ response'.out.status \in {201, 400}
            /\ response'.out.status = 201 =>
                  /\ RowsWithCode(countries, body.code) = {}
                  /\ countries' = Append(countries, body)
                  /\ Cardinality(RowsWithCode(countries', body.code)) = 1
            /\ response'.out.status = 400 =>
                  /\ RowsWithCode(countries, body.code) # {}
                  /\ countries' = countries
            /\ \A u \in Workers :
                  (u # response'.worker /\ InAddCountry(u, body.code))
                     => /\ pc[u] = "lock"
                        /\ pc'[u] = "lock"
                        /\ req'[u] = req[u]
                        /\ RowsWithCode(countries', body.code) # {}]_vars

\* Two POSTs with code ZZ ran at once against a store without ZZ: one has
\* just been answered 201 and its row is stored once, the other is still
\* waiting for the guard.
C14_Witness ==
    /\ response.worker # 0
    /\ response.req.op = "add_country"
    /\ response.req.body.code = <<"Z","Z">>
    /\ response.out.status = 201
    /\ Cardinality(RowsWithCode(countries, <<"Z","Z">>)) = 1
    /\ \E u \in Workers :
          /\ u # response.worker
          /\ pc[u] = "lock"
          /\ InAddCountry(u, <<"Z","Z">>)

====
